---- MODULE Spec2Model ----
(***************************************************************************)
(* The lease-based mutex of mongorepo (MongodbMutexes: Lock, tryLock,      *)
(* exists, NewAndLock, isDup, UnlockAll) over one MongoDB collection,      *)
(* called by several concurrent callers.  Every driver call               *)
(* (FindOneAndUpdate, FindOne, InsertOne, UpdateOne) is one atomic step of *)
(* the store; the wall clock advances between any two steps.               *)
(***************************************************************************)
EXTENDS Integers, Naturals, Sequences, FiniteSets, TLC

\* ------------------------------------------------------------------ bounds
\* Number of concurrent callers of the mutex.
NumCallers == 2
\* Number of lock identities (documents of the collection).
NumIds == 2
\* The wall clock runs from 0 (the epoch) to MaxClock milliseconds.
MaxClock == 3
\* The field maxLockTime (60000 by default), scaled to the clock's range.
maxLockTime == 1
\* The field lockRetryCount (300 by default) ranges over 0..MaxRetryCount.
MaxRetryCount == 2
\* Longest list of identities handed to UnlockAll.
MaxUnlockLen == 2
\* Bits of the unsigned integers holding currTime and unlockTime (64 in the
\* code, scaled with the clock's range).
UintBits == 8

Callers == 1..NumCallers
Ids == 1..NumIds
Modulus == 2^UintBits
\* The largest value the driver encodes: BSON has signed 64-bit integers only.
MaxInt == (Modulus \div 2) - 1

VARIABLES
  now,             \* the wall clock, in milliseconds: time.Now().UnixMilli()
  coll,            \* the collection: the document of each _id, or NoDoc
  lockRetryCount,  \* the field lockRetryCount of the MongodbMutexes
  pc,              \* where each caller is in its call
  op,              \* the method each caller runs
  id,              \* the id argument of Lock and NewAndLock
  ids,             \* the identities UnlockAll has still to release
  currTime,        \* the local currTime of Lock and NewAndLock
  unlockTime,      \* the local unlockTime of Lock
  retryTimesLeft,  \* the local retryTimesLeft of Lock
  ret,             \* the values the call returned
  tries,           \* history: conditional acquires the call has issued
  probes,          \* history: existence probes the call has issued
  heldFresh,       \* history: the record was LOCKED and not stale all call long
  grants,          \* history: LOCKED transitions since the last release or expiry
  lastOp           \* history: the store operation the last step applied

vars == <<now, coll, lockRetryCount, pc, op, id, ids, currTime, unlockTime,
          retryTimesLeft, ret, tries, probes, heldFresh, grants, lastOp>>

\* -------------------------------------------------------------- documents
UNLOCKED == 0
LOCKED == 1
NoDoc == [present |-> FALSE, state |-> 0, time |-> 0]
NoRet == [ok |-> FALSE, absent |-> FALSE, err |-> "nil"]
NoOp == [kind |-> "none", p |-> 0, id |-> 0, pre |-> NoDoc, post |-> NoDoc,
         res |-> "none", at |-> 0, attempt |-> 0, staleBefore |-> 0, left |-> 0]

\* Unsigned subtraction, as Go computes currTime - mutexes.maxLockTime.
Sub64(a, b) == (a - b + Modulus) % Modulus

\* A filter that forgets the state and the time: any document of that _id.
tryLockFilterAnyState(doc, ut) == doc.present

\* A filter with $lte in the place of $lt.
tryLockFilterLte(doc, ut) ==
  doc.present /\ (doc.state = UNLOCKED \/ doc.time <= ut)

\* The filter of tryLock: state = 0, or time < unlockTime.
tryLockFilter(doc, ut) ==
  doc.present /\ (doc.state = UNLOCKED \/ doc.time < ut)

\* The update of tryLock: $set state = 1, time = currTime.
tryLockUpdate(doc, ct) == [doc EXCEPT !.state = LOCKED, !.time = ct]

\* The document NewAndLock inserts.
newLockedDoc(ct) == [present |-> TRUE, state |-> LOCKED, time |-> ct]

\* A release that removes the document.
unlockUpdateDeletes(doc) == NoDoc

\* An update that also clears the time.
unlockUpdateClearsTime(doc) == [doc EXCEPT !.state = UNLOCKED, !.time = 0]

\* The update of UnlockAll: $set state = 0.
unlockUpdate(doc) == [doc EXCEPT !.state = UNLOCKED]

\* A probe that reports every identity as present.
existsFilterAlways(doc) == TRUE

\* The filter of exists: a document with that _id.
existsFilter(doc) == doc.present

\* An isDup that takes every error for a duplicate key.
isDupAlways(err) == TRUE

\* An isDup that recognises no error.
isDupNever(err) == FALSE

\* isDup: a WriteException holding a write error of code 11000.
isDup(err) == err = "dup11000"

\* A loop test that never ends the loop.
loopContinuesAlways(n) == TRUE

\* A loop test that lets the loop run once more.
loopContinuesOffByOne(n) == n >= 0

\* The test of the retry loop: retryTimesLeft > 0.
loopContinues(n) == n > 0

\* The driver encodes a uint64 as a BSON int64 and returns an error for one
\* that overflows it: the unlockTime of a Lock entered before maxLockTime
\* has elapsed since the epoch wraps to such a value.
Encodable(v) == v <= MaxInt

\* A LOCKED record whose time is older than maxLockTime at wall-clock time t.
Stale(doc, t) == doc.present /\ doc.state = LOCKED /\ doc.time + maxLockTime < t

\* A record that is LOCKED and not stale at wall-clock time t.
Fresh(doc, t) == doc.present /\ doc.state = LOCKED /\ ~Stale(doc, t)

\* ---------------------------------------------------------------- history
\* heldFresh after a step that leaves the collection c at time t.
KeepHeld(c, t) ==
  [q \in Callers |->
     heldFresh[q] /\ (op[q] = "Lock" /\ pc[q] # "done" => Fresh(c[id[q]], t))]

\* grants after the clock moved to t: an expiry ends the epoch.
GrantsAfterTick(t) ==
  [i \in Ids |-> IF Stale(coll[i], t) THEN 0 ELSE grants[i]]

\* grants after a LOCKED transition wrote doc on i at time t.
GrantsAfterLock(i, doc, t) ==
  [grants EXCEPT ![i] = IF Stale(doc, t) THEN 0
                        ELSE IF grants[i] < 2 THEN grants[i] + 1 ELSE 2]

\* ------------------------------------------------------------------- init
Init ==
  /\ now = 0
  /\ coll = [i \in Ids |-> NoDoc]
  /\ lockRetryCount \in 0..MaxRetryCount
  /\ pc = [p \in Callers |-> "idle"]
  /\ op = [p \in Callers |-> "none"]
  /\ id = [p \in Callers |-> 1]
  /\ ids = [p \in Callers |-> <<>>]
  /\ currTime = [p \in Callers |-> 0]
  /\ unlockTime = [p \in Callers |-> 0]
  /\ retryTimesLeft = [p \in Callers |-> 0]
  /\ ret = [p \in Callers |-> NoRet]
  /\ tries = [p \in Callers |-> 0]
  /\ probes = [p \in Callers |-> 0]
  /\ heldFresh = [p \in Callers |-> FALSE]
  /\ grants = [i \in Ids |-> 0]
  /\ lastOp = NoOp

\* The wall clock advances.
Tick ==
  /\ now < MaxClock
  /\ now' = now + 1
  /\ heldFresh' = KeepHeld(coll, now + 1)
  /\ grants' = GrantsAfterTick(now + 1)
  /\ lastOp' = NoOp
  /\ UNCHANGED <<coll, lockRetryCount, pc, op, id, ids, currTime, unlockTime,
                 retryTimesLeft, ret, tries, probes>>

\* A call returns r: its locals die with it.
Finish(p, r) ==
  /\ pc' = [pc EXCEPT ![p] = "done"]
  /\ ret' = [ret EXCEPT ![p] = r]
  /\ currTime' = [currTime EXCEPT ![p] = 0]
  /\ unlockTime' = [unlockTime EXCEPT ![p] = 0]
  /\ retryTimesLeft' = [retryTimesLeft EXCEPT ![p] = 0]

\* A Lock that goes to its retries without the existence probe.
GotoSkipProbe(p, l, n) ==
  /\ pc' = [pc EXCEPT ![p] = IF l = "exists" THEN "retry" ELSE l]
  /\ retryTimesLeft' = [retryTimesLeft EXCEPT ![p] = n]
  /\ UNCHANGED <<ret, currTime, unlockTime>>

\* A call goes on at place l with retryTimesLeft = n.
Goto(p, l, n) ==
  /\ pc' = [pc EXCEPT ![p] = l]
  /\ retryTimesLeft' = [retryTimesLeft EXCEPT ![p] = n]
  /\ UNCHANGED <<ret, currTime, unlockTime>>

\* Lock, lines 89-90: read the clock, compute unlockTime.
CallLock(p, i) ==
  /\ pc[p] = "idle"
  /\ pc' = [pc EXCEPT ![p] = "tryLock"]
  /\ op' = [op EXCEPT ![p] = "Lock"]
  /\ id' = [id EXCEPT ![p] = i]
  /\ currTime' = [currTime EXCEPT ![p] = now]
  /\ unlockTime' = [unlockTime EXCEPT ![p] = Sub64(now, maxLockTime)]
  /\ heldFresh' = [heldFresh EXCEPT ![p] = Fresh(coll[i], now)]
  /\ lastOp' = NoOp
  /\ UNCHANGED <<now, coll, lockRetryCount, ids, retryTimesLeft, ret, tries,
                 probes, grants>>

\* The results of one FindOneAndUpdate of tryLock.
Outcomes == {"match", "nomatch", "transport", "encode"}

\* A tryLock that reports every failure of the driver as "no match".
tryLockErrSwallowed(out) == "nil"

\* tryLock, lines 136-142: the error tryLock returns. ErrNoDocuments is
\* turned into (false, nil); any other error of the driver is returned.
tryLockErr(out) == IF out \in {"transport", "encode"} THEN out ELSE "nil"

\* tryLock, lines 121-143: one FindOneAndUpdate, atomic in the store. out is
\* "match" (a document came back), "nomatch" (ErrNoDocuments) or the error.
TryLockStep(p, out) ==
  LET i == id[p]
      doc == coll[i]
      hit == tryLockFilter(doc, unlockTime[p])
      new == tryLockUpdate(doc, currTime[p])
      enc == Encodable(unlockTime[p]) /\ Encodable(currTime[p])
  IN /\ \/ out = "encode" /\ ~enc
        \/ out = "transport" /\ enc
        \/ out = "match" /\ enc /\ hit
        \/ out = "nomatch" /\ enc /\ ~hit
     /\ coll' = [coll EXCEPT ![i] = IF out = "match" THEN new ELSE doc]
     /\ grants' = IF out = "match" THEN GrantsAfterLock(i, new, now) ELSE grants
     /\ tries' = [tries EXCEPT ![p] = tries[p] + 1]
     /\ lastOp' = [kind |-> "tryLock", p |-> p, id |-> i, pre |-> doc,
                   post |-> coll'[i], res |-> out, at |-> now,
                   attempt |-> tries[p] + 1, staleBefore |-> unlockTime[p],
                   left |-> 0]
     /\ heldFresh' = KeepHeld(coll', now)

\* Lock, lines 91-97: the first conditional acquire.
LockFirstTry(p) ==
  /\ pc[p] = "tryLock"
  /\ \E out \in Outcomes :
       /\ TryLockStep(p, out)
       /\ IF tryLockErr(out) # "nil"
            THEN Finish(p, [ok |-> FALSE, absent |-> FALSE, err |-> tryLockErr(out)])
            ELSE IF out = "match"
              THEN Finish(p, [ok |-> TRUE, absent |-> FALSE, err |-> "nil"])
              ELSE Goto(p, "exists", 0)
  /\ UNCHANGED <<now, lockRetryCount, op, id, ids, probes>>

\* Lock, lines 99-108: the existence probe (exists, lines 145-156), then the
\* retry budget and the first test of the loop.
LockExists(p) ==
  /\ pc[p] = "exists"
  /\ \E fault \in BOOLEAN :
       LET doc == coll[id[p]]
           found == existsFilter(doc)
       IN /\ lastOp' = [kind |-> "exists", p |-> p, id |-> id[p], pre |-> doc,
                        post |-> doc,
                        res |-> IF fault THEN "transport"
                                ELSE IF found THEN "found" ELSE "absent",
                        at |-> now, attempt |-> tries[p], staleBefore |-> 0,
                        left |-> 0]
          /\ IF fault
               THEN Finish(p, [ok |-> FALSE, absent |-> FALSE, err |-> "transport"])
               ELSE IF ~found
                 THEN Finish(p, [ok |-> FALSE, absent |-> TRUE, err |-> "nil"])
                 ELSE IF loopContinues(lockRetryCount)
                   THEN Goto(p, "retry", lockRetryCount)
                   ELSE Finish(p, NoRet)
  /\ probes' = [probes EXCEPT ![p] = probes[p] + 1]
  /\ heldFresh' = KeepHeld(coll, now)
  /\ UNCHANGED <<now, coll, lockRetryCount, op, id, ids, tries, grants>>

\* Lock, lines 108-118: one iteration of the retry loop and the loop's next test.
LockRetry(p) ==
  /\ pc[p] = "retry"
  /\ \E out \in Outcomes :
       /\ TryLockStep(p, out)
       /\ IF tryLockErr(out) # "nil"
            THEN Finish(p, [ok |-> FALSE, absent |-> FALSE, err |-> tryLockErr(out)])
            ELSE IF out = "match"
              THEN Finish(p, [ok |-> TRUE, absent |-> FALSE, err |-> "nil"])
              ELSE IF loopContinues(retryTimesLeft[p] - 1)
                THEN Goto(p, "retry", retryTimesLeft[p] - 1)
                ELSE Finish(p, NoRet)
  /\ UNCHANGED <<now, lockRetryCount, op, id, ids, probes>>

\* NewAndLock, line 159: read the clock.
CallNewAndLock(p, i) ==
  /\ pc[p] = "idle"
  /\ pc' = [pc EXCEPT ![p] = "insert"]
  /\ op' = [op EXCEPT ![p] = "NewAndLock"]
  /\ id' = [id EXCEPT ![p] = i]
  /\ currTime' = [currTime EXCEPT ![p] = now]
  /\ lastOp' = NoOp
  /\ UNCHANGED <<now, coll, lockRetryCount, ids, unlockTime, retryTimesLeft,
                 ret, tries, probes, heldFresh, grants>>

\* The results of the InsertOne of NewAndLock.
InsertOutcomes == {"created", "dup11000", "writeOther", "transport", "encode"}

\* NewAndLock, lines 160-167: one InsertOne; _id is unique in the collection.
NewAndLockInsert(p) ==
  /\ pc[p] = "insert"
  /\ \E out \in InsertOutcomes :
       LET i == id[p]
           doc == coll[i]
           new == newLockedDoc(currTime[p])
           enc == Encodable(currTime[p])
       IN /\ \/ out = "encode" /\ ~enc
             \/ out \in {"writeOther", "transport"} /\ enc
             \/ out = "dup11000" /\ enc /\ doc.present
             \/ out = "created" /\ enc /\ ~doc.present
          /\ coll' = [coll EXCEPT ![i] = IF out = "created" THEN new ELSE doc]
          /\ grants' = IF out = "created" THEN GrantsAfterLock(i, new, now) ELSE grants
          /\ lastOp' = [kind |-> "insert", p |-> p, id |-> i, pre |-> doc,
                        post |-> coll'[i], res |-> out, at |-> now,
                        attempt |-> 0, staleBefore |-> 0, left |-> 0]
          /\ IF out = "created"
               THEN Finish(p, [ok |-> TRUE, absent |-> FALSE, err |-> "nil"])
               ELSE IF isDup(out)
                 THEN Finish(p, [ok |-> FALSE, absent |-> FALSE, err |-> "nil"])
                 ELSE Finish(p, [ok |-> FALSE, absent |-> FALSE, err |-> out])
  /\ heldFresh' = KeepHeld(coll', now)
  /\ UNCHANGED <<now, lockRetryCount, op, id, ids, tries, probes>>

\* The lists of identities UnlockAll is called with.
UnlockLists == UNION {[1..n -> Ids] : n \in 1..MaxUnlockLen}

\* UnlockAll, line 182: the call, with the identities to release.
CallUnlockAll(p, s) ==
  /\ pc[p] = "idle"
  /\ pc' = [pc EXCEPT ![p] = "update"]
  /\ op' = [op EXCEPT ![p] = "UnlockAll"]
  /\ ids' = [ids EXCEPT ![p] = s]
  /\ lastOp' = NoOp
  /\ UNCHANGED <<now, coll, lockRetryCount, id, currTime, unlockTime,
                 retryTimesLeft, ret, tries, probes, heldFresh, grants>>

\* An UnlockAll that stops at the first release that fails.
restAfterUpdateStopsOnError(s, fault) == IF fault THEN <<>> ELSE Tail(s)

\* UnlockAll, lines 183-187: the identities the loop still has to release
\* after one UpdateOne; its error is dropped, the loop goes on.
restAfterUpdate(s, fault) == Tail(s)

\* A release whose filter names no identity.
unlockTargetsAll(i) == Ids

\* UnlockAll, line 184: the filter {_id: id} of the UpdateOne.
unlockTargets(i) == {i}

\* UnlockAll, lines 183-187: one UpdateOne, its result and error dropped.
UnlockAllUpdate(p) ==
  /\ pc[p] = "update"
  /\ ids[p] # <<>>
  /\ \E fault \in BOOLEAN :
       LET i == Head(ids[p])
           doc == coll[i]
           hit(j) == ~fault /\ j \in unlockTargets(i) /\ coll[j].present
           rest == restAfterUpdate(ids[p], fault)
       IN /\ coll' = [j \in Ids |-> IF hit(j) THEN unlockUpdate(coll[j]) ELSE coll[j]]
          /\ grants' = [j \in Ids |-> IF hit(j) THEN 0 ELSE grants[j]]
          /\ lastOp' = [kind |-> "update", p |-> p, id |-> i, pre |-> doc,
                        post |-> coll'[i],
                        res |-> IF fault THEN "transport"
                                ELSE IF doc.present THEN "updated" ELSE "nomatch",
                        at |-> now, attempt |-> 0, staleBefore |-> 0,
                        left |-> Len(ids[p]) - 1]
          /\ ids' = [ids EXCEPT ![p] = rest]
          /\ IF rest = <<>> THEN Finish(p, NoRet) ELSE Goto(p, "update", 0)
  /\ heldFresh' = KeepHeld(coll', now)
  /\ UNCHANGED <<now, lockRetryCount, op, id, tries, probes>>

\* The caller takes the result and is ready for its next call.
Return(p) ==
  /\ pc[p] = "done"
  /\ pc' = [pc EXCEPT ![p] = "idle"]
  /\ op' = [op EXCEPT ![p] = "none"]
  /\ id' = [id EXCEPT ![p] = 1]
  /\ ids' = [ids EXCEPT ![p] = <<>>]
  /\ ret' = [ret EXCEPT ![p] = NoRet]
  /\ tries' = [tries EXCEPT ![p] = 0]
  /\ probes' = [probes EXCEPT ![p] = 0]
  /\ heldFresh' = [heldFresh EXCEPT ![p] = FALSE]
  /\ lastOp' = NoOp
  /\ UNCHANGED <<now, coll, lockRetryCount, currTime, unlockTime,
                 retryTimesLeft, grants>>

Next ==
  \/ Tick
  \/ \E p \in Callers, i \in Ids : CallLock(p, i)
  \/ \E p \in Callers : LockFirstTry(p)
  \/ \E p \in Callers : LockExists(p)
  \/ \E p \in Callers : LockRetry(p)
  \/ \E p \in Callers, i \in Ids : CallNewAndLock(p, i)
  \/ \E p \in Callers : NewAndLockInsert(p)
  \/ \E p \in Callers, s \in UnlockLists : CallUnlockAll(p, s)
  \/ \E p \in Callers : UnlockAllUpdate(p)
  \/ \E p \in Callers : Return(p)

Spec == Init /\ [][Next]_vars

\* A caller that holds an acquired=true result of Lock or NewAndLock on i.
Acquired(p, i) ==
  /\ pc[p] = "done" /\ op[p] \in {"Lock", "NewAndLock"}
  /\ id[p] = i /\ ret[p].ok

\* Some caller holds an acquired=true result whose release is not over yet.
SomeoneHolds ==
  \E p \in Callers :
    \/ \E i \in Ids : Acquired(p, i)
    \/ op[p] = "UnlockAll" /\ pc[p] = "update"

\* The clock of callers whose release of what they hold is over in the
\* millisecond their acquisition returned, less than maxLockTime after it.
TickLease == ~SomeoneHolds /\ Tick

\* The holder of identity id[p] releases it: it takes its acquired=true result
\* and calls UnlockAll with that identity.
ReleaseOwn(p) ==
  /\ Acquired(p, id[p])
  /\ pc' = [pc EXCEPT ![p] = "update"]
  /\ op' = [op EXCEPT ![p] = "UnlockAll"]
  /\ ids' = [ids EXCEPT ![p] = <<id[p]>>]
  /\ id' = [id EXCEPT ![p] = 1]
  /\ ret' = [ret EXCEPT ![p] = NoRet]
  /\ tries' = [tries EXCEPT ![p] = 0]
  /\ probes' = [probes EXCEPT ![p] = 0]
  /\ heldFresh' = [heldFresh EXCEPT ![p] = FALSE]
  /\ lastOp' = NoOp
  /\ UNCHANGED <<now, coll, lockRetryCount, currTime, unlockTime,
                 retryTimesLeft, grants>>

\* A caller that holds nothing takes its result.
ReturnLease(p) == ~(\E i \in Ids : Acquired(p, i)) /\ Return(p)

\* The steps of callers that call UnlockAll only on what they hold, and do so
\* less than maxLockTime after their acquisition returned.
NextLease ==
  \/ TickLease
  \/ \E p \in Callers, i \in Ids : CallLock(p, i)
  \/ \E p \in Callers : LockFirstTry(p)
  \/ \E p \in Callers : LockExists(p)
  \/ \E p \in Callers : LockRetry(p)
  \/ \E p \in Callers, i \in Ids : CallNewAndLock(p, i)
  \/ \E p \in Callers : NewAndLockInsert(p)
  \/ \E p \in Callers : ReleaseOwn(p)
  \/ \E p \in Callers : UnlockAllUpdate(p)
  \/ \E p \in Callers : ReturnLease(p)

LeaseSpec == Init /\ [][NextLease]_vars

\* ---- MongodbStore.Load ----

\* A document of the collection of a MongodbStore.
StoredDoc == [present |-> TRUE, state |-> 0, time |-> 0]

\* A store with any of the documents in its collection, and no call yet.
InitStore ==
  /\ now = 0
  /\ coll \in [Ids -> {NoDoc, StoredDoc}]
  /\ lockRetryCount = 0
  /\ pc = [p \in Callers |-> "idle"]
  /\ op = [p \in Callers |-> "none"]
  /\ id = [p \in Callers |-> 1]
  /\ ids = [p \in Callers |-> <<>>]
  /\ currTime = [p \in Callers |-> 0]
  /\ unlockTime = [p \in Callers |-> 0]
  /\ retryTimesLeft = [p \in Callers |-> 0]
  /\ ret = [p \in Callers |-> NoRet]
  /\ tries = [p \in Callers |-> 0]
  /\ probes = [p \in Callers |-> 0]
  /\ heldFresh = [p \in Callers |-> FALSE]
  /\ grants = [i \in Ids |-> 0]
  /\ lastOp = NoOp

\* Load, lines 21-22: the call, with the identity to look up.
CallLoad(p, i) ==
  /\ pc[p] = "idle"
  /\ pc' = [pc EXCEPT ![p] = "find"]
  /\ op' = [op EXCEPT ![p] = "Load"]
  /\ id' = [id EXCEPT ![p] = i]
  /\ lastOp' = NoOp
  /\ UNCHANGED <<now, coll, lockRetryCount, ids, currTime, unlockTime,
                 retryTimesLeft, ret, tries, probes, heldFresh, grants>>

\* The results of the FindOne of Load: a document, ErrNoDocuments, or another
\* error.
FindOutcomes == {"doc", "ErrNoDocuments", "transport"}

\* Load, lines 24-35: the results (found in ok, err) after the FindOne. Only
\* ErrNoDocuments is tested; after any other error the error of Decode is
\* dropped, result stays nil and err is overwritten by that of bson.Marshal,
\* which for a nil bson.D either fails (marshalOk = FALSE) or gives a document.
LoadResult(out, marshalOk) ==
  IF out = "ErrNoDocuments"
    THEN [ok |-> FALSE, absent |-> FALSE, err |-> "nil"]
    ELSE IF out = "transport" /\ ~marshalOk
      THEN [ok |-> FALSE, absent |-> FALSE, err |-> "marshal"]
      ELSE [ok |-> TRUE, absent |-> FALSE, err |-> "nil"]

\* Load, lines 23-35: the FindOne and the return.
LoadFind(p) ==
  /\ pc[p] = "find"
  /\ \E out \in FindOutcomes, marshalOk \in BOOLEAN :
       LET doc == coll[id[p]]
       IN /\ \/ out = "transport"
             \/ out = "doc" /\ doc.present /\ marshalOk
             \/ out = "ErrNoDocuments" /\ ~doc.present /\ marshalOk
          /\ lastOp' = [kind |-> "find", p |-> p, id |-> id[p], pre |-> doc,
                        post |-> doc, res |-> out, at |-> now, attempt |-> 0,
                        staleBefore |-> 0, left |-> 0]
          /\ Finish(p, LoadResult(out, marshalOk))
  /\ UNCHANGED <<now, coll, lockRetryCount, op, id, ids, tries, probes,
                 heldFresh, grants>>

NextStore ==
  \/ \E p \in Callers, i \in Ids : CallLoad(p, i)
  \/ \E p \in Callers : LoadFind(p)
  \/ \E p \in Callers : Return(p)

StoreSpec == InitStore /\ [][NextStore]_vars

\* The next round trip of a Lock in progress: Lock has no wait and no sleep,
\* every round trip to the store answers or fails.
LockStep(p) == LockFirstTry(p) \/ LockExists(p) \/ LockRetry(p)

\* ------------------------------------------------------------ properties
\* A caller whose call has returned from method m.
Returned(p, m) == op[p] = m /\ pc[p] = "done"

\* The last step was a conditional acquire of tryLock that the store answered.
Answered == lastOp.kind = "tryLock" /\ lastOp.res \in {"match", "nomatch"}

\* C1: mutual exclusion. On every identity, at most one LOCKED transition
\* succeeds between two events that end a holder's epoch (a release by
\* UnlockAll, or the record becoming stale): no two callers are told
\* acquired=true on the same record unless one of those events came between.
C1_MutualExclusion == \A i \in Ids : grants[i] <= 1

\* C1 witness: a caller holds i by a successful Lock and a concurrent Lock on
\* i by another caller has just been refused.
C1_Witness ==
  \E p, q \in Callers :
    /\ p # q
    /\ Returned(p, "Lock") /\ ret[p].ok
    /\ op[q] = "Lock" /\ id[q] = id[p]
    /\ lastOp.kind = "tryLock" /\ lastOp.p = q /\ lastOp.res = "nomatch"
    /\ grants[id[p]] = 1

\* C2: stale recovery as claimed. A conditional acquire on a record that is
\* LOCKED since t0 (never released) matches if and only if the attempt is made
\* at a time now >= t0 + maxLockTime.
C2_StaleRecoveryAsClaimed ==
  (Answered /\ lastOp.pre.present /\ lastOp.pre.state = LOCKED)
    => (lastOp.res = "match" <=> lastOp.at >= lastOp.pre.time + maxLockTime)

\* C3: absence signal. A Lock on an identity that has no record never returns
\* acquired=true and, unless one of its store operations failed, returns
\* absent=true; it leaves the store without that record. Conversely a Lock
\* that returns absent=true returns acquired=false and no error, has issued
\* exactly one existence probe, and that probe found no record.
C3_AbsenceSignal ==
  /\ \A p \in Callers :
       Returned(p, "Lock") =>
         /\ ~coll[id[p]].present =>
              (~ret[p].ok /\ (ret[p].err = "nil" => ret[p].absent))
         /\ ret[p].absent =>
              (~ret[p].ok /\ ret[p].err = "nil" /\ probes[p] = 1 /\ tries[p] = 1)
  /\ lastOp.kind = "exists" =>
       (ret[lastOp.p].absent <=> (lastOp.res = "absent" /\ ~lastOp.pre.present))
  /\ (lastOp.kind \in {"tryLock", "exists"} /\ ~lastOp.pre.present) =>
       ~lastOp.post.present

\* C3 witness: a Lock has just returned absent=true on an identity without a record.
C3_Witness ==
  \E p \in Callers :
    /\ Returned(p, "Lock") /\ ret[p].absent /\ ~ret[p].ok
    /\ ~coll[id[p]].present
    /\ lastOp.kind = "exists" /\ lastOp.p = p

\* An insert of NewAndLock that the store answered: created, or duplicate key.
InsertAnswered == lastOp.kind = "insert" /\ lastOp.res \in {"created", "dup11000"}

\* C4: create race. Of the NewAndLock calls on one identity at most one
\* returns acquired=true; an insert the store answers creates the record
\* (LOCKED, acquired=true) exactly when none existed, and otherwise is a
\* duplicate that leaves the record unchanged and returns acquired=false with
\* no error; after any such return the record exists, and a Lock that probes
\* an existing record never reports absent=true.
C4_CreateRace ==
  /\ \A p, q \in Callers :
       (p # q /\ Returned(p, "NewAndLock") /\ Returned(q, "NewAndLock")
          /\ id[p] = id[q]) => ~(ret[p].ok /\ ret[q].ok)
  /\ \A p \in Callers :
       (Returned(p, "NewAndLock") /\ ret[p].err = "nil") => coll[id[p]].present
  /\ InsertAnswered =>
       /\ ret[lastOp.p].err = "nil" /\ ~ret[lastOp.p].absent
       /\ ret[lastOp.p].ok <=> ~lastOp.pre.present
       /\ ret[lastOp.p].ok <=> lastOp.res = "created"
       /\ lastOp.res = "created" =>
            (lastOp.post.present /\ lastOp.post.state = LOCKED)
       /\ lastOp.res = "dup11000" => lastOp.post = lastOp.pre
  /\ (lastOp.kind = "exists" /\ lastOp.pre.present) => ~ret[lastOp.p].absent

\* C4 witness: two NewAndLock calls on one identity have returned, one with
\* acquired=true, the other (a duplicate, just now) with acquired=false and no
\* error, and the record is LOCKED.
C4_Witness ==
  \E p, q \in Callers :
    /\ p # q /\ id[p] = id[q]
    /\ Returned(p, "NewAndLock") /\ ret[p].ok
    /\ Returned(q, "NewAndLock") /\ ~ret[q].ok /\ ret[q].err = "nil"
    /\ lastOp.kind = "insert" /\ lastOp.p = q /\ lastOp.res = "dup11000"
    /\ coll[id[p]].present /\ coll[id[p]].state = LOCKED

\* C5: release is idempotent. A release that reaches an existing record
\* leaves it UNLOCKED with its time unchanged, leaves an UNLOCKED record
\* exactly as it was, and UnlockAll surfaces no error.
C5_ReleaseIdempotent ==
  /\ (lastOp.kind = "update" /\ lastOp.res = "updated") =>
       /\ lastOp.post.present
       /\ lastOp.post.state = UNLOCKED
       /\ lastOp.post.time = lastOp.pre.time
       /\ lastOp.pre.state = UNLOCKED => lastOp.post = lastOp.pre
       /\ coll[lastOp.id] = lastOp.post
  /\ \A p \in Callers : Returned(p, "UnlockAll") => ret[p].err = "nil"

\* C5 witness: a release has just been applied to a record that an earlier
\* release had already left UNLOCKED.
C5_Witness ==
  /\ lastOp.kind = "update" /\ lastOp.res = "updated"
  /\ lastOp.pre.present /\ lastOp.pre.state = UNLOCKED /\ lastOp.pre.time > 0
  /\ coll[lastOp.id].state = UNLOCKED

\* C6: retry budget exhaustion. A Lock whose record was LOCKED and not stale
\* all call long returns, unless a store operation failed, acquired=false and
\* absent=false with no error; and every Lock that returns that result has
\* issued exactly 1 + lockRetryCount conditional acquires and one probe.
C6_RetryBudget ==
  \A p \in Callers :
    Returned(p, "Lock") =>
      /\ (heldFresh[p] /\ ret[p].err = "nil") => ret[p] = NoRet
      /\ ret[p] = NoRet => (tries[p] = 1 + lockRetryCount /\ probes[p] = 1)

\* C6 witness: a Lock on a record held and fresh all call long has returned
\* not-acquired after using up a retry budget of at least one.
C6_Witness ==
  \E p \in Callers :
    /\ Returned(p, "Lock") /\ heldFresh[p] /\ ret[p] = NoRet
    /\ lockRetryCount > 0 /\ tries[p] = 1 + lockRetryCount

\* C7: a conditional acquire moves the record to LOCKED only from UNLOCKED, or
\* from LOCKED when its time is older than maxLockTime at the wall-clock time
\* of the transition; a LOCKED record that is not stale then is not
\* re-acquired, and a failed attempt leaves the record unchanged.
C7_LockedOnlyFromUnlockedOrStale ==
  lastOp.kind = "tryLock" =>
    /\ lastOp.res = "match" =>
         /\ lastOp.pre.present
         /\ lastOp.pre.state = UNLOCKED \/ Stale(lastOp.pre, lastOp.at)
         /\ lastOp.post.state = LOCKED
    /\ Fresh(lastOp.pre, lastOp.at) => lastOp.res # "match"
    /\ lastOp.res # "match" => lastOp.post = lastOp.pre

\* C7 witness: a conditional acquire has just re-acquired a stale LOCKED record.
C7_Witness ==
  /\ lastOp.kind = "tryLock" /\ lastOp.res = "match"
  /\ lastOp.pre.state = LOCKED /\ Stale(lastOp.pre, lastOp.at)
  /\ lastOp.post.state = LOCKED

\* C8: as claimed, a successful LOCKED transition never writes a time smaller
\* than the one stored before it.
C8_TimeNeverDecreases ==
  (lastOp.kind = "tryLock" /\ lastOp.res = "match")
    => lastOp.post.time >= lastOp.pre.time

\* C9: as claimed, a retry of the conditional acquire works with the time of
\* the retry: a record that is stale when the retry is made is acquired by it.
C9_RetryPicksUpStaleLock ==
  (Answered /\ lastOp.attempt > 1 /\ Stale(lastOp.pre, lastOp.at))
    => lastOp.res = "match"

\* C10: as claimed, the time a successful LOCKED transition writes is the
\* wall-clock time at which the store applies it.
C10_TimeIsTransitionTime ==
  lastOp.res \in {"match", "created"} => lastOp.post.time = lastOp.at

\* C11: release is unconditional and non-destructive. A release the store
\* applies to an existing record sets state=UNLOCKED whatever the state was
\* and whoever locked it, keeps the record and keeps its time; and no store
\* operation of Lock, NewAndLock or UnlockAll removes a record that exists.
C11_ReleaseUnconditional ==
  /\ (lastOp.kind = "update" /\ lastOp.res # "transport" /\ lastOp.pre.present) =>
       /\ lastOp.res = "updated"
       /\ lastOp.post = [present |-> TRUE, state |-> UNLOCKED,
                         time |-> lastOp.pre.time]
  /\ (lastOp.kind # "none" /\ lastOp.pre.present) =>
       (lastOp.post.present /\ coll[lastOp.id].present)

\* C11 witness: a caller has just released a record that is LOCKED by the
\* acquired=true result another caller still holds.
C11_Witness ==
  \E p \in Callers :
    /\ Acquired(p, lastOp.id)
    /\ lastOp.kind = "update" /\ lastOp.p # p /\ lastOp.res = "updated"
    /\ lastOp.pre.state = LOCKED /\ lastOp.post.state = UNLOCKED
    /\ lastOp.post.time = lastOp.pre.time

\* The errors a call of the driver can fail with.
StoreErrors == {"transport", "encode", "writeOther"}

\* C12: Lock propagates errors. When a store operation of Lock (the first
\* acquire, the probe or a retry) fails, Lock returns at once with that error,
\* acquired=false and absent=false; when it does not fail, Lock returns no
\* error, so "no matching document" is never an error; and an error Lock
\* returns is the error of its last store operation.
C12_LockErrorPropagation ==
  /\ (lastOp.kind \in {"tryLock", "exists"} /\ lastOp.res \in StoreErrors) =>
       /\ pc[lastOp.p] = "done"
       /\ ret[lastOp.p] = [ok |-> FALSE, absent |-> FALSE, err |-> lastOp.res]
       /\ lastOp.post = lastOp.pre
  /\ (lastOp.kind \in {"tryLock", "exists"} /\ lastOp.res \notin StoreErrors) =>
       ret[lastOp.p].err = "nil"
  /\ \A p \in Callers :
       (Returned(p, "Lock") /\ ret[p].err # "nil") =>
         /\ ~ret[p].ok /\ ~ret[p].absent
         /\ ret[p].err \in StoreErrors
         /\ tries[p] + probes[p] <= 2 + lockRetryCount

\* C12 witness: a retry of Lock has just failed in transport and Lock has
\* returned that error.
C12_Witness ==
  /\ lastOp.kind = "tryLock" /\ lastOp.attempt > 1 /\ lastOp.res = "transport"
  /\ Returned(lastOp.p, "Lock")
  /\ ret[lastOp.p] = [ok |-> FALSE, absent |-> FALSE, err |-> "transport"]

\* C13: the outcomes of NewAndLock. It returns (true, nil) exactly when its
\* insert created the record, (false, nil) exactly when the insert was
\* refused for a duplicate identity, the existing record being left as it was,
\* and any other failure of the insert comes back as that error with
\* acquired=false.
C13_NewAndLockOutcomes ==
  lastOp.kind = "insert" =>
    LET r == ret[lastOp.p]
    IN /\ Returned(lastOp.p, "NewAndLock")
       /\ ~r.absent
       /\ (r.ok /\ r.err = "nil") <=> lastOp.res = "created"
       /\ (~r.ok /\ r.err = "nil") <=> lastOp.res = "dup11000"
       /\ lastOp.res = "created" =>
            (~lastOp.pre.present /\ lastOp.post = newLockedDoc(lastOp.post.time))
       /\ lastOp.res = "dup11000" =>
            (lastOp.pre.present /\ lastOp.post = lastOp.pre)
       /\ lastOp.res \notin {"created", "dup11000"} =>
            (r = [ok |-> FALSE, absent |-> FALSE, err |-> lastOp.res]
               /\ lastOp.post = lastOp.pre)

\* C13 witness: an insert has just failed with a write error that is not a
\* duplicate key, and NewAndLock has returned that error.
C13_Witness ==
  /\ lastOp.kind = "insert" /\ lastOp.res = "writeOther"
  /\ ret[lastOp.p] = [ok |-> FALSE, absent |-> FALSE, err |-> "writeOther"]

\* C14: UnlockAll releases every identity on its own. After each release,
\* failed or not, exactly the identities not yet attempted are left and the
\* call goes on with them; it returns after the last one and never reports an
\* error; a failed release changes nothing, and a release that did not fail
\* leaves an existing record UNLOCKED.
C14_UnlockAllIndependent ==
  lastOp.kind = "update" =>
    /\ Len(ids[lastOp.p]) = lastOp.left
    /\ ret[lastOp.p] = NoRet
    /\ lastOp.left > 0 => (op[lastOp.p] = "UnlockAll" /\ pc[lastOp.p] = "update")
    /\ lastOp.left = 0 => Returned(lastOp.p, "UnlockAll")
    /\ lastOp.res = "transport" => coll[lastOp.id] = lastOp.pre
    /\ lastOp.res = "updated" =>
         (coll[lastOp.id].present /\ coll[lastOp.id].state = UNLOCKED)
    /\ lastOp.res = "nomatch" => ~coll[lastOp.id].present

\* C14 witness: the first of two releases has just failed, its record stays
\* LOCKED, and the call goes on to the second identity.
C14_Witness ==
  /\ lastOp.kind = "update" /\ lastOp.res = "transport" /\ lastOp.left = 1
  /\ coll[lastOp.id].state = LOCKED
  /\ pc[lastOp.p] = "update" /\ Len(ids[lastOp.p]) = 1
  /\ Head(ids[lastOp.p]) # lastOp.id

\* The identity the next store operation of caller p is about.
Target(p) == IF op[p] = "UnlockAll" THEN Head(ids[p]) ELSE id[p]

\* The answer of the store operation o follows from the record of its own
\* identity as it was, and from the arguments of the operation.
OwnRecordDecides(o) ==
  /\ (o.kind = "tryLock" /\ o.res \notin StoreErrors) =>
       (o.res = "match" <=> tryLockFilter(o.pre, o.staleBefore))
  /\ (o.kind = "exists" /\ o.res \notin StoreErrors) =>
       (o.res = "found" <=> o.pre.present)
  /\ (o.kind = "insert" /\ o.res \notin StoreErrors) =>
       (o.res = "created" <=> ~o.pre.present)
  /\ (o.kind = "update" /\ o.res \notin StoreErrors) =>
       (o.res = "updated" <=> o.pre.present)

\* C15: per-identity isolation. A step changes the record of an identity only
\* if it is a store operation of a call on that identity, and the answer of a
\* store operation follows from the record of its own identity alone.
C15_PerIdentityIsolation ==
  [][/\ \A i \in Ids :
          coll'[i] # coll[i] => (lastOp'.kind # "none" /\ lastOp'.id = i)
     /\ lastOp'.kind # "none" =>
          /\ lastOp'.id = Target(lastOp'.p)
          /\ lastOp'.pre = coll[lastOp'.id]
          /\ lastOp'.post = coll'[lastOp'.id]
          /\ OwnRecordDecides(lastOp')]_vars

\* C15 witness: a release has just unlocked one record while the record of
\* another identity is LOCKED, and stays so.
C15_Witness ==
  /\ lastOp.kind = "update" /\ lastOp.res = "updated"
  /\ lastOp.pre.state = LOCKED
  /\ \E j \in Ids : j # lastOp.id /\ coll[j].present /\ coll[j].state = LOCKED

\* C16: the order of the store operations of Lock. The first one is the
\* conditional acquire; if it matches, Lock returns acquired=true after that
\* one round trip without a probe; the probe is issued at most once, after
\* exactly one acquire and before any retry; retries follow only a probe that
\* found the record.
C16_LockOrdering ==
  /\ \A p \in Callers :
       op[p] = "Lock" =>
         /\ pc[p] = "tryLock" => (tries[p] = 0 /\ probes[p] = 0)
         /\ pc[p] = "exists" => (tries[p] = 1 /\ probes[p] = 0)
         /\ pc[p] = "retry" => (tries[p] >= 1 /\ probes[p] = 1)
         /\ pc[p] = "done" => tries[p] >= 1
         /\ probes[p] <= 1
         /\ tries[p] >= 2 => probes[p] = 1
  /\ (lastOp.kind = "tryLock" /\ lastOp.attempt = 1 /\ lastOp.res = "match") =>
       /\ Returned(lastOp.p, "Lock") /\ ret[lastOp.p].ok
       /\ tries[lastOp.p] = 1 /\ probes[lastOp.p] = 0
  /\ lastOp.kind = "exists" =>
       /\ lastOp.attempt = 1 /\ probes[lastOp.p] = 1
       /\ lastOp.res # "found" => pc[lastOp.p] = "done"
       /\ pc[lastOp.p] = "retry" => lastOp.pre.present

\* C16 witness: the second acquire of a Lock, issued after its one probe, has
\* just matched.
C16_Witness ==
  /\ lastOp.kind = "tryLock" /\ lastOp.attempt = 2 /\ lastOp.res = "match"
  /\ probes[lastOp.p] = 1 /\ tries[lastOp.p] = 2
  /\ Returned(lastOp.p, "Lock") /\ ret[lastOp.p].ok

\* A Lock of caller p is in progress.
InLock(p) == op[p] = "Lock" /\ pc[p] \in {"tryLock", "exists", "retry"}

\* The four results of Lock: acquired, absent, not acquired, error.
LockResults ==
  {[ok |-> TRUE, absent |-> FALSE, err |-> "nil"],
   [ok |-> FALSE, absent |-> TRUE, err |-> "nil"],
   NoRet} \cup
  {[ok |-> FALSE, absent |-> FALSE, err |-> e] : e \in StoreErrors}

\* The bounds of a Lock: at most 1 + lockRetryCount conditional acquires and
\* one probe, a retry budget that shrinks with every acquire, a next round
\* trip that is always possible, and one of the four results at the end.
LockBounded ==
  \A p \in Callers :
    op[p] = "Lock" =>
      /\ tries[p] <= 1 + lockRetryCount
      /\ probes[p] <= 1
      /\ pc[p] = "retry" =>
           /\ retryTimesLeft[p] > 0
           /\ tries[p] + retryTimesLeft[p] = 1 + lockRetryCount
      /\ InLock(p) => ENABLED LockStep(p)
      /\ pc[p] = "done" => ret[p] \in LockResults

\* The round trips a Lock of caller p can still make.
RoundTripsLeft(p) ==
  IF ~InLock(p) THEN 0
  ELSE IF pc[p] = "tryLock" THEN 2 + lockRetryCount
  ELSE IF pc[p] = "exists" THEN 1 + lockRetryCount
  ELSE retryTimesLeft[p]

\* C17: Lock always terminates. A Lock in progress can always make its next
\* round trip, every step of it leaves fewer round trips to make, no other
\* step touches it, and it ends after at most 1 + lockRetryCount conditional
\* acquires and at most one probe with one of acquired, absent, not acquired
\* or an error.
C17_LockTerminates ==
  /\ []LockBounded
  /\ [][\A p \in Callers :
          InLock(p) =>
            \/ RoundTripsLeft(p)' < RoundTripsLeft(p)
            \/ /\ ~LockStep(p)
               /\ pc'[p] = pc[p] /\ op'[p] = op[p]
               /\ retryTimesLeft'[p] = retryTimesLeft[p]]_vars

\* C17 witness: a Lock has returned not acquired after its whole budget of
\* two retries.
C17_Witness ==
  \E p \in Callers :
    /\ Returned(p, "Lock") /\ ret[p] = NoRet
    /\ lockRetryCount = MaxRetryCount /\ tries[p] = 1 + MaxRetryCount
    /\ probes[p] = 1

\* C18: lease-long mutual exclusion. With callers that release only what
\* they hold, and less than maxLockTime after their acquisition returned, no
\* two callers hold an acquired=true result on the same identity at once.
C18_LeaseMutualExclusion ==
  \A p, q \in Callers, i \in Ids :
    (Acquired(p, i) /\ Acquired(q, i)) => p = q

\* C19: the errors of Load. Load returns found=false without an error only
\* when the lookup reported that no document has the identity; when the
\* lookup fails with any other error, Load returns that error and does not
\* report found=true.
C19_LoadErrorHandling ==
  lastOp.kind = "find" =>
    LET r == ret[lastOp.p]
    IN /\ (~r.ok /\ r.err = "nil") => lastOp.res = "ErrNoDocuments"
       /\ lastOp.res = "transport" => (~r.ok /\ r.err = "transport")

\* C20: staleBefore does not wrap around. For every clock value, also one
\* below maxLockTime, the staleBefore of a Lock is at most the clock value it
\* was computed from, so a LOCKED record whose time is not more than
\* maxLockTime in the past is never matched as stale.
C20_StaleBeforeNoWrap ==
  /\ \A p \in Callers : InLock(p) => unlockTime[p] <= currTime[p]
  /\ (lastOp.kind = "tryLock" /\ lastOp.pre.present /\ lastOp.pre.state = LOCKED
        /\ lastOp.pre.time + maxLockTime >= lastOp.at) =>
       lastOp.res # "match"

====
